---------------------------- MODULE Spec2Model ----------------------------
(***************************************************************************)
(* The read paths of the blog API: the filtered listing handler, the plain *)
(* listing handler, the search handler and the single-entry get handler,   *)
(* over a document store with a query and a scan operation.                *)
(*                                                                         *)
(* Strings are sequences of one-character strings, so that JSON and URI    *)
(* encoding and decoding are computed character by character; every JS     *)
(* string is such a sequence.  An optional value (an attribute or request  *)
(* parameter that may be undefined) is a sequence of length 0 or 1.        *)
(***************************************************************************)
EXTENDS Integers, Sequences, FiniteSets, TLC

\* ------------------------------------------------------------- bounds ---
MaxEntries == 2
MaxLimit == 2
\* Invocations of the write handlers that may run at the same time.
MaxRacers == 2

\* ---------------------------------------------------------- constants ---
DefaultLimit == 10

\* ----------------------------------------------------- optional values --
Absent == <<>>
Some(v) == <<v>>
IsSome(o) == Len(o) > 0
Val(o) == o[1]

\* ------------------------------------------------------------ strings ---
Digit == <<"0", "1", "2", "3", "4", "5", "6", "7", "8", "9">>

\* The characters of timestamps in code-point order.
CharOrder ==
  <<"-", "0", "1", "2", "3", "4", "5", "6", "7", "8", "9", ":", "T", "Z">>

Ord(c) == CHOOSE i \in DOMAIN CharOrder : CharOrder[i] = c

RECURSIVE StrLessFrom(_, _, _)
StrLessFrom(a, b, i) ==
  IF i > Len(b) THEN FALSE
  ELSE IF i > Len(a) THEN TRUE
  ELSE IF a[i] = b[i] THEN StrLessFrom(a, b, i + 1)
  ELSE Ord(a[i]) < Ord(b[i])

\* a < b as the store compares string attributes (by code point).
StrLess(a, b) == StrLessFrom(a, b, 1)
StrLeq(a, b) == a = b \/ StrLess(a, b)

\* --------------------------------------------------- URI component codec --
\* The characters encodeURIComponent escapes, with their two hex digits.
PctChars == {"{", "}", "\"", ":", ",", "%", " "}
PctCode(c) ==
  CASE c = "{" -> <<"7", "B">>
    [] c = "}" -> <<"7", "D">>
    [] c = "\"" -> <<"2", "2">>
    [] c = ":" -> <<"3", "A">>
    [] c = "," -> <<"2", "C">>
    [] c = "%" -> <<"2", "5">>
    [] c = " " -> <<"2", "0">>

RECURSIVE encodeURIComponent(_)
encodeURIComponent(s) ==
  IF s = <<>> THEN <<>>
  ELSE (IF Head(s) \in PctChars THEN <<"%">> \o PctCode(Head(s))
        ELSE <<Head(s)>>) \o encodeURIComponent(Tail(s))

\* decodeURIComponent: [ok, val]; ok is FALSE where the call throws URIError.
RECURSIVE decodeFrom(_, _, _)
decodeFrom(s, i, acc) ==
  IF i > Len(s) THEN [ok |-> TRUE, val |-> acc]
  ELSE IF s[i] # "%" THEN decodeFrom(s, i + 1, Append(acc, s[i]))
  ELSE IF i + 2 > Len(s) THEN [ok |-> FALSE, val |-> <<>>]
  ELSE LET hit == {c \in PctChars : PctCode(c) = <<s[i + 1], s[i + 2]>>}
       IN IF hit = {} THEN [ok |-> FALSE, val |-> <<>>]
          ELSE decodeFrom(s, i + 3, Append(acc, CHOOSE c \in hit : TRUE))

decodeURIComponent(s) == decodeFrom(s, 1, <<>>)

\* --------------------------------------------------------- JSON codec ---
\* A JS value: [type, truthy, fields]; an object's fields are a sequence of
\* <<name, value>> pairs of strings, in insertion order.  truthy is the
\* value's truthiness (null, 0 and "" are falsy).
JsNull == [type |-> "null", truthy |-> FALSE, fields |-> <<>>]
JsNumber(nonzero) == [type |-> "number", truthy |-> nonzero, fields |-> <<>>]
JsString(s) == [type |-> "string", truthy |-> s # <<>>, fields |-> <<>>]
JsObject(fs) == [type |-> "object", truthy |-> TRUE, fields |-> fs]

Quoted(s) == <<"\"">> \o s \o <<"\"">>

RECURSIVE stringifyFields(_)
stringifyFields(fs) ==
  IF fs = <<>> THEN <<>>
  ELSE Quoted(fs[1][1]) \o <<":">> \o Quoted(fs[1][2])
       \o (IF Len(fs) > 1 THEN <<",">> ELSE <<>>)
       \o stringifyFields(Tail(fs))

\* JSON.stringify of an object whose values are strings free of quotes.
JSONstringify(v) == <<"{">> \o stringifyFields(v.fields) \o <<"}">>

\* The index of the closing quote of the string literal opening at i, 0 if none.
RECURSIVE closingQuote(_, _)
closingQuote(s, j) ==
  IF j > Len(s) THEN 0
  ELSE IF s[j] = "\"" THEN j
  ELSE closingQuote(s, j + 1)

\* A string literal at i: [ok, val, next].
stringAt(s, i) ==
  IF i > Len(s) \/ s[i] # "\"" THEN [ok |-> FALSE, val |-> <<>>, next |-> i]
  ELSE LET j == closingQuote(s, i + 1)
       IN IF j = 0 THEN [ok |-> FALSE, val |-> <<>>, next |-> i]
          ELSE [ok |-> TRUE, val |-> SubSeq(s, i + 1, j - 1), next |-> j + 1]

\* The members of an object from position i (after the opening brace).
RECURSIVE membersFrom(_, _, _)
membersFrom(s, i, acc) ==
  LET k == stringAt(s, i)
  IN IF ~k.ok \/ k.next > Len(s) \/ s[k.next] # ":"
     THEN [ok |-> FALSE, val |-> <<>>]
     ELSE LET v == stringAt(s, k.next + 1)
              fs == Append(acc, <<k.val, v.val>>)
          IN IF ~v.ok \/ v.next > Len(s) THEN [ok |-> FALSE, val |-> <<>>]
             ELSE IF s[v.next] = "}"
             THEN [ok |-> v.next = Len(s), val |-> fs]
             ELSE IF s[v.next] = ","
             THEN membersFrom(s, v.next + 1, fs)
             ELSE [ok |-> FALSE, val |-> <<>>]

IsDigits(s) == s # <<>> /\ \A i \in DOMAIN s : s[i] \in {Digit[d] : d \in DOMAIN Digit}

\* JSON.parse: [ok, val]; ok is FALSE where the call throws SyntaxError.
JSONparse(s) ==
  IF s = <<"n", "u", "l", "l">> THEN [ok |-> TRUE, val |-> JsNull]
  ELSE IF IsDigits(s)
  THEN [ok |-> TRUE, val |-> JsNumber(\E i \in DOMAIN s : s[i] # "0")]
  ELSE IF s = <<"{", "}">> THEN [ok |-> TRUE, val |-> JsObject(<<>>)]
  ELSE IF Len(s) >= 2 /\ s[1] = "\"" /\ closingQuote(s, 2) = Len(s)
  THEN [ok |-> TRUE, val |-> JsString(SubSeq(s, 2, Len(s) - 1))]
  ELSE IF s # <<>> /\ s[1] = "{"
  THEN LET m == membersFrom(s, 2, <<>>)
       IN [ok |-> m.ok, val |-> JsObject(m.val)]
  ELSE [ok |-> FALSE, val |-> JsNull]

\* ------------------------------------------------------- JS helpers ---
\* Falsy with the empty string taken as a value.
FalsyWhenAbsent(o) == ~IsSome(o)

\* a || b for an optional string a: absent and "" are falsy.
Falsy(o) == ~IsSome(o) \/ Val(o) = <<>>
OrElse(o, d) == IF Falsy(o) THEN d ELSE Val(o)

DigitValue(c) == (CHOOSE d \in DOMAIN Digit : Digit[d] = c) - 1
IsDigit(c) == \E d \in DOMAIN Digit : Digit[d] = c

RECURSIVE leadingDigits(_, _, _)
leadingDigits(s, i, acc) ==
  IF i > Len(s) \/ ~IsDigit(s[i]) THEN acc
  ELSE leadingDigits(s, i + 1, 10 * acc + DigitValue(s[i]))

\* parseInt of an optional string: Absent stands for NaN.
parseInt(o) ==
  IF ~IsSome(o) \/ Val(o) = <<>> THEN Absent
  ELSE LET s == Val(o)
           neg == s[1] = "-"
           from == IF neg THEN 2 ELSE 1
       IN IF from > Len(s) \/ ~IsDigit(s[from]) THEN Absent
          ELSE Some((IF neg THEN -1 ELSE 1) * leadingDigits(s, from, 0))

\* parseInt(x) || d: NaN and 0 are falsy.
ParseIntOr(o, d) ==
  IF IsSome(parseInt(o)) /\ Val(parseInt(o)) # 0 THEN Val(parseInt(o)) ELSE d

\* --------------------------------------------------------- vocabulary ---
all == <<"a", "l", "l">>
private == <<"p", "r", "i", "v", "a", "t", "e">>
shared == <<"s", "h", "a", "r", "e", "d">>
public == <<"p", "u", "b", "l", "i", "c">>
PUBLISHED == <<"P", "U", "B", "L", "I", "S", "H", "E", "D">>
Happy == <<"H", "a", "p", "p", "y">>
Sad == <<"S", "a", "d">>
blogIdName == <<"b", "l", "o", "g", "I", "d">>
userIdName == <<"u", "s", "e", "r", "I", "d">>
createdAtName == <<"c", "r", "e", "a", "t", "e", "d", "A", "t">>

Sub(i) == <<"u", Digit[i + 1]>>
Users == {Sub(1), Sub(2)}
Email(u) == u \o <<"@", "x">>
Bid(i) == <<"b", Digit[i + 1]>>
BlogIds == {Bid(i) : i \in 1..MaxEntries}
\* Creation timestamps, abbreviated to the day and hour:minute fields.
Stamp(d) == <<"0", Digit[d + 1], "T", "0", "9", ":", "0", "0">>
Stamps == {Stamp(d) : d \in 1..MaxEntries}

\* -------------------------------------------------------------- store ---
\* The blogs table: partition key blogId; global secondary index
\* userIdIndex with partition key userId and sort key createdAt.
TableKey == {blogIdName}
IndexKey == {blogIdName, userIdName, createdAtName}

\* Attribute names the store reserves: not usable bare in an expression.
ReservedWords == {"status"}

\* One comparison of a filter expression.
Cond(fn, attr, v, w) == [fn |-> fn, attr |-> attr, v |-> v, w |-> w]

\* The string attribute of an entry, as an optional value.
AttrOf(e, attr) ==
  CASE attr = "visibility" -> e.visibility
    [] attr = "mood" -> e.mood
    [] attr = "createdAt" -> Some(e.createdAt)
    [] attr = "userId" -> Some(e.userId)
    [] attr = "title" -> Some(e.title)
    [] attr = "content" -> Some(e.content)
    [] attr = "status" -> Some(e.status)
    [] OTHER -> Absent

IsSubstring(t, s) ==
  \E i \in 1..(Len(s) - Len(t) + 1) : SubSeq(s, i, i + Len(t) - 1) = t

EvalCond(e, c) ==
  IF c.attr = "tags" THEN c.fn = "contains" /\ c.v \in e.tags
  ELSE LET a == AttrOf(e, c.attr)
       IN /\ IsSome(a)
          /\ CASE c.fn = "eq" -> Val(a) = c.v
               [] c.fn = "between" -> StrLeq(c.v, Val(a)) /\ StrLeq(Val(a), c.w)
               [] c.fn = "contains" -> IsSubstring(c.v, Val(a))

\* A filter expression: a conjunction (sequence) of disjunctions (sequences).
Matches(e, filter) ==
  \A i \in DOMAIN filter : \E j \in DOMAIN filter[i] : EvalCond(e, filter[i][j])

FilterAttrs(filter) ==
  UNION {{filter[i][j].attr : j \in DOMAIN filter[i]} : i \in DOMAIN filter}

\* Position of a blog id in the table's storage (hash) order.
BidRank(b) == IF b \in BlogIds THEN CHOOSE i \in 1..MaxEntries : Bid(i) = b ELSE 0

Field(obj, name) ==
  LET hits == {i \in DOMAIN obj.fields : obj.fields[i][1] = name}
  IN IF hits = {} THEN Absent
     ELSE Some(obj.fields[CHOOSE i \in hits : \A j \in hits : j <= i][2])

HasKeySchema(obj, names) ==
  /\ obj.type = "object"
  /\ Len(obj.fields) = Cardinality(names)
  /\ {obj.fields[i][1] : i \in DOMAIN obj.fields} = names

\* Order of the index within a partition: sort key, then storage order.
IndexLess(c1, b1, c2, b2) ==
  StrLess(c1, c2) \/ (c1 = c2 /\ BidRank(b1) < BidRank(b2))

\* The elements of S as a sequence ascending in index order.
IndexSeq(S) ==
  [i \in 1..Cardinality(S) |->
     CHOOSE e \in S :
       Cardinality({f \in S :
         IndexLess(f.createdAt, f.blogId, e.createdAt, e.blogId)}) = i - 1]

TableSeq(S) ==
  [i \in 1..Cardinality(S) |->
     CHOOSE e \in S :
       Cardinality({f \in S : BidRank(f.blogId) < BidRank(e.blogId)}) = i - 1]

Reverse(q) == [i \in 1..Len(q) |-> q[Len(q) + 1 - i]]

IndexKeyOf(e) ==
  JsObject(<<<<blogIdName, e.blogId>>, <<userIdName, e.userId>>,
             <<createdAtName, e.createdAt>>>>)
TableKeyOf(e) == JsObject(<<<<blogIdName, e.blogId>>>>)

\* The store as one invocation finds it: the table's items, and whether the
\* service answers (up) or the call fails with a service error.
Store(items, up) == [items |-> items, up |-> up]

\* A rejected call: the request is invalid (ValidationException).
StoreError ==
  [ok |-> FALSE, Items |-> <<>>, Count |-> 0, LastEvaluatedKey |-> Absent,
   message |-> "ValidationException"]

\* A failed call: the store is throttling or unavailable.
StoreOutage == [StoreError EXCEPT !.message = "ServiceUnavailable"]

Result(items, lek) ==
  [ok |-> TRUE, Items |-> items, Count |-> Len(items), LastEvaluatedKey |-> lek,
   message |-> ""]

Take(q, n) == SubSeq(q, 1, IF n < Len(q) THEN n ELSE Len(q))

\* The page read from an ordered sequence of candidates: at most Limit items
\* are read, then the filter is applied to what was read; the key of the last
\* item read is returned when the read stopped at the limit.
Page(rest, p, onIndex) ==
  Result(SelectSeq(Take(rest, p.Limit), LAMBDA e : Matches(e, p.FilterExpression)),
         IF Len(rest) < p.Limit THEN Absent
         ELSE IF onIndex THEN Some(IndexKeyOf(rest[p.Limit]))
         ELSE Some(TableKeyOf(rest[p.Limit])))

\* Request validation of query.
QueryValid(p) ==
  /\ IsSome(p.KeyConditionExpression)
  /\ p.Limit >= 1
  /\ FilterAttrs(p.FilterExpression) \cap ReservedWords = {}
  /\ FilterAttrs(p.FilterExpression) \cap {"userId", "createdAt"} = {}
  /\ IsSome(p.ExclusiveStartKey) =>
       /\ HasKeySchema(Val(p.ExclusiveStartKey), IndexKey)
       /\ Field(Val(p.ExclusiveStartKey), userIdName) = p.KeyConditionExpression

\* The items of an index partition from the start key on, in query order.
AfterIndexKey(e, c, b, forward) ==
  IF forward THEN IndexLess(c, b, e.createdAt, e.blogId)
  ELSE IndexLess(e.createdAt, e.blogId, c, b)

QueryRest(asc, p) ==
  IF IsSome(p.ExclusiveStartKey)
  THEN SelectSeq(IF p.ScanIndexForward THEN asc ELSE Reverse(asc),
         LAMBDA e : AfterIndexKey(e,
                      Val(Field(Val(p.ExclusiveStartKey), createdAtName)),
                      Val(Field(Val(p.ExclusiveStartKey), blogIdName)),
                      p.ScanIndexForward))
  ELSE IF p.ScanIndexForward THEN asc ELSE Reverse(asc)

\* dynamodb.query on userIdIndex.
Query(p, tbl) ==
  IF ~tbl.up THEN StoreOutage
  ELSE IF ~QueryValid(p) THEN StoreError
  ELSE Page(QueryRest(IndexSeq({e \in tbl.items :
                                  e.userId = Val(p.KeyConditionExpression)}), p),
            p, TRUE)

\* Request validation of scan.
ScanValid(p) ==
  /\ ~p.HasScanIndexForward
  /\ ~IsSome(p.KeyConditionExpression)
  /\ p.Limit >= 1
  /\ FilterAttrs(p.FilterExpression) \cap ReservedWords = {}
  /\ IsSome(p.ExclusiveStartKey) =>
       HasKeySchema(Val(p.ExclusiveStartKey), TableKey)

ScanRest(ordered, p) ==
  IF IsSome(p.ExclusiveStartKey)
  THEN SelectSeq(ordered,
         LAMBDA e : BidRank(Val(Field(Val(p.ExclusiveStartKey), blogIdName)))
                      < BidRank(e.blogId))
  ELSE ordered

\* dynamodb.scan on the table.
Scan(p, tbl) ==
  IF ~tbl.up THEN StoreOutage
  ELSE IF ~ScanValid(p) THEN StoreError
  ELSE Page(ScanRest(TableSeq(tbl.items), p), p, FALSE)

\* The parameters of a store call; KeyConditionExpression holds the value
\* bound to 'userId = :userId' when the expression is present.
Params(op) ==
  [op |-> op, IndexName |-> Absent, KeyConditionExpression |-> Absent,
   FilterExpression |-> <<>>, Limit |-> DefaultLimit,
   ScanIndexForward |-> TRUE, HasScanIndexForward |-> FALSE,
   ExclusiveStartKey |-> Absent]

\* ------------------------------------------------------- base64 codec ---
\* The printable ASCII characters from code 32 to 126 (the grave accent, code
\* 96, is written out).
Ascii ==
  <<" ", "!", "\"", "#", "$", "%", "&", "'", "(", ")", "*", "+", ",", "-",
    ".", "/", "0", "1", "2", "3", "4", "5", "6", "7", "8", "9", ":", ";",
    "<", "=", ">", "?", "@", "A", "B", "C", "D", "E", "F", "G", "H", "I",
    "J", "K", "L", "M", "N", "O", "P", "Q", "R", "S", "T", "U", "V", "W",
    "X", "Y", "Z", "[", "\\", "]", "^", "_", "grave", "a", "b", "c", "d", "e",
    "f", "g", "h", "i", "j", "k", "l", "m", "n", "o", "p", "q", "r", "s",
    "t", "u", "v", "w", "x", "y", "z", "{", "|", "}", "~">>
CodeOf(c) == 31 + (CHOOSE i \in DOMAIN Ascii : Ascii[i] = c)
\* Bytes outside the printable range decode to the replacement character.
CharOf(n) == IF n \in 32..126 THEN Ascii[n - 31] ELSE "?"

B64 ==
  <<"A", "B", "C", "D", "E", "F", "G", "H", "I", "J", "K", "L", "M", "N",
    "O", "P", "Q", "R", "S", "T", "U", "V", "W", "X", "Y", "Z", "a", "b",
    "c", "d", "e", "f", "g", "h", "i", "j", "k", "l", "m", "n", "o", "p",
    "q", "r", "s", "t", "u", "v", "w", "x", "y", "z", "0", "1", "2", "3",
    "4", "5", "6", "7", "8", "9", "+", "/">>
SextetChar(n) == B64[n + 1]
IsB64(c) == \E i \in DOMAIN B64 : B64[i] = c
SextetOf(c) == (CHOOSE i \in DOMAIN B64 : B64[i] = c) - 1

\* Buffer.from(s).toString('base64')
RECURSIVE toBase64(_)
toBase64(s) ==
  IF s = <<>> THEN <<>>
  ELSE LET a == CodeOf(s[1])
       IN IF Len(s) = 1
          THEN <<SextetChar(a \div 4), SextetChar((a % 4) * 16), "=", "=">>
          ELSE LET b == CodeOf(s[2])
               IN IF Len(s) = 2
                  THEN <<SextetChar(a \div 4),
                         SextetChar((a % 4) * 16 + b \div 16),
                         SextetChar((b % 16) * 4), "=">>
                  ELSE LET c == CodeOf(s[3])
                       IN <<SextetChar(a \div 4),
                            SextetChar((a % 4) * 16 + b \div 16),
                            SextetChar((b % 16) * 4 + c \div 64),
                            SextetChar(c % 64)>>
                          \o toBase64(SubSeq(s, 4, Len(s)))

\* The sextets of a base64 text up to its padding; other characters are skipped.
sextets(s) ==
  LET pad == {i \in DOMAIN s : s[i] = "="}
      n == IF pad = {} THEN Len(s)
           ELSE (CHOOSE i \in pad : \A j \in pad : i <= j) - 1
      kept == SelectSeq(SubSeq(s, 1, n), IsB64)
  IN [i \in DOMAIN kept |-> SextetOf(kept[i])]

RECURSIVE bytesOf(_)
bytesOf(x) ==
  IF Len(x) < 2 THEN <<>>
  ELSE LET a == x[1] * 4 + x[2] \div 16
       IN IF Len(x) = 2 THEN <<CharOf(a)>>
          ELSE LET b == (x[2] % 16) * 16 + x[3] \div 4
               IN IF Len(x) = 3 THEN <<CharOf(a), CharOf(b)>>
                  ELSE <<CharOf(a), CharOf(b), CharOf((x[3] % 4) * 64 + x[4])>>
                       \o bytesOf(SubSeq(x, 5, Len(x)))

\* Buffer.from(s, 'base64').toString(): never throws.
fromBase64(s) == bytesOf(sextets(s))

\* ------------------------------------------------------------ handlers ---
NoParams ==
  [limit |-> Absent, nextToken |-> Absent, visibility |-> Absent,
   tag |-> Absent, startDate |-> Absent, endDate |-> Absent,
   mood |-> Absent, userId |-> Absent, q |-> Absent]

\* An API Gateway event: the handler addressed, the authorizer's claims,
\* the query-string parameters and the blogId path parameter.
Event(h, sub, qp, id) ==
  [handler |-> h, claims |-> [sub |-> sub, email |-> Email(sub)],
   queryStringParameters |-> qp, blogId |-> id]

\* A response with the store calls the invocation made.
Respond(code, items, token, calls) ==
  [statusCode |-> code, items |-> items, nextToken |-> token, calls |-> calls,
   message |-> Absent, error |-> Absent]

\* An error response: body { message, error } without items.
Fail(code, message, error, calls) ==
  [Respond(code, <<>>, Absent, calls) EXCEPT
     !.message = Some(message), !.error = error]

\* The outcome of JSON.parse for lastEvaluatedKey: threw where it throws.
ParsedKey(j) ==
  IF j.ok THEN [threw |-> FALSE, key |-> Some(j.val)]
  ELSE [threw |-> TRUE, key |-> Absent]

\* lastEvaluatedKey of a request whose nextToken decodes to text ([ok, val]):
\* undefined (Absent) for a falsy token.
KeyFrom(o, text) ==
  IF Falsy(o) THEN [threw |-> FALSE, key |-> Absent]
  ELSE IF ~text.ok THEN [threw |-> TRUE, key |-> Absent]
  ELSE ParsedKey(JSONparse(text.val))

\* StartKey with the pagination token never applied to the request.
StartKeyNotApplied(k) == Absent

\* if (lastEvaluatedKey) params.ExclusiveStartKey = lastEvaluatedKey
StartKey(k) == IF IsSome(k.key) /\ Val(k.key).truthy THEN k.key ELSE Absent

UriToken(lek) ==
  IF IsSome(lek) THEN Some(encodeURIComponent(JSONstringify(Val(lek)))) ELSE Absent

Base64Token(lek) ==
  IF IsSome(lek) THEN Some(toBase64(JSONstringify(Val(lek)))) ELSE Absent

\* Reply with a failed store call answered as an empty page.
ReplyEmptyOnFailure(threw, params, result, base64) ==
  IF threw THEN Fail(500, "Error", Some("exception"), <<>>)
  ELSE Respond(200, result.Items,
               IF base64 THEN Base64Token(result.LastEvaluatedKey)
               ELSE UriToken(result.LastEvaluatedKey),
               <<params>>)

\* The try block from the store call on: threw is an exception thrown before
\* the call, result is the call's outcome.
Reply(threw, params, result, base64) ==
  IF threw THEN Fail(500, "Error", Some("exception"), <<>>)
  ELSE IF ~result.ok THEN Fail(500, "Error", Some(result.message), <<params>>)
  ELSE Respond(200, result.Items,
               IF base64 THEN Base64Token(result.LastEvaluatedKey)
               ELSE UriToken(result.LastEvaluatedKey),
               <<params>>)

AndCond(filter, on, c) == IF on THEN Append(filter, <<c>>) ELSE filter

\* The base retrieval strategy of the filtered listing.
ByOwner(visibility) == visibility = private \/ visibility = all

FilteredBase(visibility) ==
  IF visibility = private \/ visibility = public
  THEN <<<<Cond("eq", "visibility", visibility, <<>>)>>>>
  ELSE <<>>

Dated(qp) == ~Falsy(qp.startDate) /\ ~Falsy(qp.endDate)

\* The FilterExpression of the filtered listing.
FilteredExpression(qp) ==
  AndCond(
    AndCond(
      AndCond(FilteredBase(OrElse(qp.visibility, all)), Dated(qp),
              Cond("between", "createdAt", OrElse(qp.startDate, <<>>),
                   OrElse(qp.endDate, <<>>))),
      ~Falsy(qp.tag), Cond("contains", "tags", OrElse(qp.tag, <<>>), <<>>)),
    ~Falsy(qp.mood), Cond("eq", "mood", OrElse(qp.mood, <<>>), <<>>))

\* ExpressionAttributeValues is undefined when an assignment reaches it.
FilteredTypeError(qp, visibility) ==
  /\ ~ByOwner(visibility) /\ visibility # public
  /\ Dated(qp) \/ ~Falsy(qp.tag) \/ ~Falsy(qp.mood)

FilteredParams(userId, qp, byOwner, startKey) ==
  [Params("query") EXCEPT
     !.Limit = ParseIntOr(qp.limit, DefaultLimit),
     !.IndexName = IF byOwner THEN Some("userIdIndex") ELSE Absent,
     !.KeyConditionExpression = IF byOwner THEN Some(userId) ELSE Absent,
     !.FilterExpression = FilteredExpression(qp),
     !.ExclusiveStartKey = startKey]

FilteredCall(threw, params, tbl) ==
  Reply(threw, params, Query(params, tbl), FALSE)

FilteredRun(userId, qp, key, tbl) ==
  FilteredCall(key.threw \/ FilteredTypeError(qp, OrElse(qp.visibility, all)),
               FilteredParams(userId, qp, ByOwner(OrElse(qp.visibility, all)),
                              StartKey(key)),
               tbl)

\* The filtered listing handler.
ListBlogsFiltered(event, tbl) ==
  FilteredRun(event.claims.sub, event.queryStringParameters,
              KeyFrom(event.queryStringParameters.nextToken,
                      decodeURIComponent(
                        OrElse(event.queryStringParameters.nextToken, <<>>))),
              tbl)

ListParams(qp, startKey) ==
  [Params(IF ~Falsy(qp.userId) THEN "query" ELSE "scan") EXCEPT
     !.Limit = ParseIntOr(qp.limit, DefaultLimit),
     !.ScanIndexForward = FALSE,
     !.HasScanIndexForward = TRUE,
     !.IndexName = IF ~Falsy(qp.userId) THEN Some("userIdIndex") ELSE Absent,
     !.KeyConditionExpression = IF ~Falsy(qp.userId) THEN qp.userId ELSE Absent,
     !.FilterExpression = <<<<Cond("eq", "status", PUBLISHED, <<>>)>>>>,
     !.ExclusiveStartKey = startKey]

ListCall(threw, params, tbl) ==
  Reply(threw, params,
        IF params.op = "query" THEN Query(params, tbl) ELSE Scan(params, tbl),
        TRUE)

ListRun(qp, key, tbl) == ListCall(key.threw, ListParams(qp, StartKey(key)), tbl)

\* The plain listing handler.
ListBlogs(event, tbl) ==
  ListRun(event.queryStringParameters,
          KeyFrom(event.queryStringParameters.nextToken,
                  [ok |-> TRUE,
                   val |-> fromBase64(
                             OrElse(event.queryStringParameters.nextToken, <<>>))]),
          tbl)

\* SearchParams with the owner-or-public clause left out of the filter.
SearchParamsAnyOwner(userId, searchTerm, qp, startKey) ==
  [Params("scan") EXCEPT
     !.Limit = ParseIntOr(qp.limit, DefaultLimit),
     !.FilterExpression =
        <<<<Cond("contains", "title", searchTerm, <<>>),
            Cond("contains", "content", searchTerm, <<>>),
            Cond("contains", "tags", searchTerm, <<>>)>>>>,
     !.ExclusiveStartKey = startKey]

\* The search handler's scan parameters.
SearchParams(userId, searchTerm, qp, startKey) ==
  [Params("scan") EXCEPT
     !.Limit = ParseIntOr(qp.limit, DefaultLimit),
     !.FilterExpression =
        <<<<Cond("contains", "title", searchTerm, <<>>),
            Cond("contains", "content", searchTerm, <<>>),
            Cond("contains", "tags", searchTerm, <<>>)>>,
          <<Cond("eq", "userId", userId, <<>>),
            Cond("eq", "visibility", public, <<>>)>>>>,
     !.ExclusiveStartKey = startKey]

SearchCall(threw, params, tbl) ==
  Reply(threw, params, Scan(params, tbl), FALSE)

SearchRun(userId, qp, key, tbl) ==
  IF ~key.threw /\ Falsy(qp.q)
  THEN Fail(400, "Search term is required", Absent, <<>>)
  ELSE SearchCall(key.threw,
                  SearchParams(userId, OrElse(qp.q, <<>>), qp, StartKey(key)), tbl)

\* The search handler.
SearchBlogs(event, tbl) ==
  SearchRun(event.claims.sub, event.queryStringParameters,
            KeyFrom(event.queryStringParameters.nextToken,
                    decodeURIComponent(
                      OrElse(event.queryStringParameters.nextToken, <<>>))),
            tbl)

GetCall(blogId) == [Params("get") EXCEPT !.KeyConditionExpression = Some(blogId)]

\* GetCheck with the viewer-list check of shared entries left out.
GetCheckPrivateOnly(blog, userId, userEmail, call) ==
  IF blog.visibility = Some(private) /\ blog.userId # userId
  THEN Fail(403, "You do not have permission", Absent, <<call>>)
  ELSE Respond(200, <<blog>>, Absent, <<call>>)

\* The permission checks of get on the item found.
GetCheck(blog, userId, userEmail, call) ==
  IF blog.visibility = Some(private) /\ blog.userId # userId
  THEN Fail(403, "You do not have permission", Absent, <<call>>)
  ELSE IF /\ blog.visibility = Some(shared)
          /\ blog.userId # userId
          /\ (~IsSome(blog.sharedWith) \/ userEmail \notin Val(blog.sharedWith))
  THEN Fail(403, "You do not have permission", Absent, <<call>>)
  ELSE Respond(200, <<blog>>, Absent, <<call>>)

GetBlogDenyingAbsent(event, tbl) ==
  IF ~tbl.up
  THEN Fail(500, "Error", Some(StoreOutage.message), <<GetCall(event.blogId)>>)
  ELSE IF \A e \in tbl.items : e.blogId # event.blogId
  THEN Fail(403, "You do not have permission", Absent,
            <<GetCall(event.blogId)>>)
  ELSE GetCheck(CHOOSE e \in tbl.items : e.blogId = event.blogId,
                event.claims.sub, event.claims.email, GetCall(event.blogId))

\* The single-entry get handler.
GetBlog(event, tbl) ==
  IF ~tbl.up
  THEN Fail(500, "Error", Some(StoreOutage.message), <<GetCall(event.blogId)>>)
  ELSE IF \A e \in tbl.items : e.blogId # event.blogId
  THEN Fail(404, "Blog post not found", Absent, <<GetCall(event.blogId)>>)
  ELSE GetCheck(CHOOSE e \in tbl.items : e.blogId = event.blogId,
                event.claims.sub, event.claims.email, GetCall(event.blogId))

\* The export handler's query: the caller's partition, no Limit (the whole
\* partition fits one read), date range and tag filters.
ExportParams(userId, qp) ==
  [Params("query") EXCEPT
     !.Limit = MaxEntries + 1,
     !.IndexName = Some("userIdIndex"),
     !.KeyConditionExpression = Some(userId),
     !.FilterExpression =
        AndCond(AndCond(<<>>, Dated(qp),
                        Cond("between", "createdAt", OrElse(qp.startDate, <<>>),
                             OrElse(qp.endDate, <<>>))),
                ~Falsy(qp.tag), Cond("contains", "tags", OrElse(qp.tag, <<>>), <<>>))]

\* The object key of an export file.
ExportKey(userId) == <<"exports", userId>>

ExportCall(params, result) ==
  IF ~result.ok THEN Fail(500, "Error", Some(result.message), <<params>>)
  ELSE Respond(200, result.Items, Absent, <<params>>)

\* The export handler; items are the entries written to the export file.
ExportBlogs(event, tbl) ==
  ExportCall(ExportParams(event.claims.sub, event.queryStringParameters),
             Query(ExportParams(event.claims.sub, event.queryStringParameters), tbl))

\* ------------------------------------------------------ write handlers ---
Range(q) == {q[i] : i \in DOMAIN q}

\* A visibility value outside the vocabulary, as a client may send it.
friends == <<"f", "r", "i", "e", "n", "d", "s">>

\* The body of a create or update request after JSON.parse; fields the
\* client left out are absent.
Body(title, content, imageBase64, visibility) ==
  [title |-> title, content |-> content, imageBase64 |-> imageBase64,
   visibility |-> visibility]

\* An API Gateway event of a write: event.body is null when the client sent
\* none.
WriteEvent(h, sub, id, body) ==
  [handler |-> h, claims |-> [sub |-> sub, email |-> Email(sub)],
   blogId |-> id, body |-> body]

\* The response of a write handler.
Answer(code, message, blogId) ==
  [statusCode |-> code, message |-> message, blogId |-> blogId]

\* What an invocation leaves behind: its response, the table and the bucket.
Outcome(response, items, objects) ==
  [response |-> response, items |-> items, objects |-> objects]

\* JSON.parse(event.body) followed by the destructuring of the result:
\* a null body parses to null, whose destructuring throws.
ParseBody(event) ==
  [threw |-> ~IsSome(event.body),
   body |-> IF IsSome(event.body) THEN Val(event.body)
            ELSE Body(Absent, Absent, Absent, Absent)]

\* The uuids an image key can carry.
ImageIds == 1..MaxEntries
ImageKey(blogId, n) == <<"blogs", blogId, n>>
FreeImageIds(blogId, objects) ==
  {n \in ImageIds : ImageKey(blogId, n) \notin objects}
\* uuidv4 for a blog id: an id that names no entry and no object.
FreshBlogIds(items, objects) ==
  {id \in BlogIds :
     /\ \A e \in items : e.blogId # id
     /\ FreeImageIds(id, objects) = ImageIds}

\* uploadImage: the key of the stored object, or null when putObject
\* failed.  n is the uuid drawn for the key.
uploadImage(blogId, n, objects, s3up) ==
  IF s3up
  THEN [key |-> Some(ImageKey(blogId, n)),
        objects |-> objects \cup {ImageKey(blogId, n)}]
  ELSE [key |-> Absent, objects |-> objects]

\* imageUrls after the optional upload: the key is pushed when there is one.
Pushed(imageUrls, upload) ==
  IF IsSome(upload.key) THEN Append(imageUrls, Val(upload.key)) ELSE imageUrls

\* The item the create handler puts.  An undefined attribute is not stored;
\* tags default to the empty list.
blogItem(blogId, userId, body, imageUrls, timestamp) ==
  [blogId |-> blogId, userId |-> userId, title |-> Val(body.title),
   content |-> Val(body.content), imageUrls |-> Some(imageUrls),
   imageUrl |-> Absent, visibility |-> body.visibility, tags |-> Some({}),
   createdAt |-> timestamp, status |-> PUBLISHED]

\* The item of the create variant without visibility: a single imageUrl
\* (null or a key), no imageUrls, visibility or tags.
blogItemPlain(blogId, userId, body, imageUrl, timestamp) ==
  [blogId |-> blogId, userId |-> userId, title |-> Val(body.title),
   content |-> Val(body.content), imageUrls |-> Absent,
   imageUrl |-> imageUrl, visibility |-> Absent, tags |-> Absent,
   createdAt |-> timestamp, status |-> PUBLISHED]

\* dynamodb.put: replaces the item with the same key.
PutItem(items, item) ==
  {e \in items : e.blogId # item.blogId} \cup {item}

\* dynamodb.get by blogId.
GetItem(items, blogId) == {e \in items : e.blogId = blogId}

\* dynamodb.delete by blogId.
DeleteItem(items, blogId) == {e \in items : e.blogId # blogId}

\* The destructuring default: visibility = 'private' applies when the body
\* has no visibility.
WithDefaults(body) ==
  [body EXCEPT !.visibility =
     IF IsSome(body.visibility) THEN body.visibility ELSE Some(private)]

\* After the body is parsed and validated: upload, put, 201.
CreateValid(event, body, items, blogId, timestamp, upload) ==
  Outcome(Answer(201, "Blog post created successfully", Some(blogId)),
          PutItem(items,
                  blogItem(blogId, event.claims.sub, body,
                           Pushed(<<>>, upload), timestamp)),
          upload.objects)

\* The create handler.
CreateBlog(event, items, objects, blogId, n, timestamp, s3up) ==
  IF ParseBody(event).threw
  THEN Outcome(Answer(500, "Error creating blog post", Absent), items, objects)
  ELSE IF Falsy(ParseBody(event).body.title)
          \/ Falsy(ParseBody(event).body.content)
  THEN Outcome(Answer(400, "Title and content are required", Absent),
               items, objects)
  ELSE CreateValid(event, WithDefaults(ParseBody(event).body), items,
                   blogId, timestamp,
                   IF Falsy(ParseBody(event).body.imageBase64)
                   THEN uploadImage(blogId, n, objects, FALSE)
                   ELSE uploadImage(blogId, n, objects, s3up))

\* The create variant without visibility: a failed putObject is not caught
\* apart and ends the request with 500.
CreateBlogPlain(event, items, objects, blogId, n, timestamp, s3up) ==
  IF ParseBody(event).threw
  THEN Outcome(Answer(500, "Error creating blog post", Absent), items, objects)
  ELSE IF Falsy(ParseBody(event).body.title)
          \/ Falsy(ParseBody(event).body.content)
  THEN Outcome(Answer(400, "Title and content are required", Absent),
               items, objects)
  ELSE IF Falsy(ParseBody(event).body.imageBase64)
  THEN Outcome(Answer(201, "Blog post created successfully", Some(blogId)),
               PutItem(items,
                       blogItemPlain(blogId, event.claims.sub,
                                     ParseBody(event).body, Absent, timestamp)),
               objects)
  ELSE IF ~s3up
  THEN Outcome(Answer(500, "Error creating blog post", Absent), items, objects)
  ELSE Outcome(Answer(201, "Blog post created successfully", Some(blogId)),
               PutItem(items,
                       blogItemPlain(blogId, event.claims.sub,
                                     ParseBody(event).body,
                                     Some(ImageKey(blogId, n)), timestamp)),
               objects \cup {ImageKey(blogId, n)})

\* An item holding the key alone: what an update starts from when no item
\* has the key.  A missing attribute reads as empty.
KeyOnly(blogId) ==
  [blogId |-> blogId, userId |-> <<>>, title |-> <<>>, content |-> <<>>,
   imageUrls |-> Absent, imageUrl |-> Absent, visibility |-> Absent,
   tags |-> Absent, createdAt |-> <<>>, status |-> <<>>]

\* The UpdateExpression applied to an item: title, content and visibility
\* are set when truthy in the body, imageUrls when not empty.  updatedAt is
\* not carried by the model.
Updated(e, body, imageUrls) ==
  [e EXCEPT !.title = OrElse(body.title, @),
            !.content = OrElse(body.content, @),
            !.imageUrls = IF Len(imageUrls) > 0 THEN Some(imageUrls) ELSE @,
            !.visibility = IF Falsy(body.visibility) THEN @
                           ELSE body.visibility]

UpdateItemReplacing(items, blogId, body, imageUrls) ==
  DeleteItem(items, blogId) \cup {Updated(KeyOnly(blogId), body, imageUrls)}

\* dynamodb.update by blogId without a condition: the item with the key is
\* modified, and created when there is none.
UpdateItem(items, blogId, body, imageUrls) ==
  DeleteItem(items, blogId)
    \cup {Updated(e, body, imageUrls) :
            e \in IF GetItem(items, blogId) = {} THEN {KeyOnly(blogId)}
                  ELSE GetItem(items, blogId)}

\* The update handler after its existence and ownership checks.
UpdateOwned(event, body, blog, items, upload) ==
  Outcome(Answer(200, "Blog post updated successfully", Some(event.blogId)),
          UpdateItem(items, event.blogId, body,
                     Pushed(IF IsSome(blog.imageUrls) THEN Val(blog.imageUrls)
                            ELSE <<>>, upload)),
          upload.objects)

\* The update handler.
UpdateBlog(event, items, objects, n, s3up) ==
  IF ParseBody(event).threw
  THEN Outcome(Answer(500, "Error updating blog post", Absent), items, objects)
  ELSE IF GetItem(items, event.blogId) = {}
  THEN Outcome(Answer(404, "Blog post not found", Absent), items, objects)
  ELSE IF \E blog \in GetItem(items, event.blogId) :
            blog.userId # event.claims.sub
  THEN Outcome(Answer(403, "You do not have permission", Absent),
               items, objects)
  ELSE UpdateOwned(event, ParseBody(event).body,
                   CHOOSE blog \in GetItem(items, event.blogId) : TRUE, items,
                   IF Falsy(ParseBody(event).body.imageBase64)
                   THEN uploadImage(event.blogId, n, objects, FALSE)
                   ELSE uploadImage(event.blogId, n, objects, s3up))

\* The objects the delete handler removes: the keys in blog.imageUrls.
Removed(blog) ==
  IF IsSome(blog.imageUrls) THEN Range(Val(blog.imageUrls)) ELSE {}

\* The delete handler.
DeleteBlog(event, items, objects) ==
  IF GetItem(items, event.blogId) = {}
  THEN Outcome(Answer(404, "Blog post not found", Absent), items, objects)
  ELSE IF \E blog \in GetItem(items, event.blogId) :
            blog.userId # event.claims.sub
  THEN Outcome(Answer(403, "You do not have permission", Absent),
               items, objects)
  ELSE Outcome(Answer(200, "Blog post deleted successfully", Absent),
               DeleteItem(items, event.blogId),
               objects \ UNION {Removed(blog) :
                                  blog \in GetItem(items, event.blogId)})

\* ---------------------------------------------------------- user pool ---
Admins == <<"A", "d", "m", "i", "n", "s">>
root == <<"r", "o", "o", "t">>
\* An account of the user pool.
Account(username, confirmed, enabled, groups) ==
  [username |-> username, confirmed |-> confirmed, enabled |-> enabled,
   groups |-> groups]
\* The pool as deployed: the administrator's account, in the Admins group.
Provisioned == {Account(root, TRUE, TRUE, {Admins})}

APPROVED == <<"A", "P", "P", "R", "O", "V", "E", "D">>
approve == <<"a", "p", "p", "r", "o", "v", "e">>
reject == <<"r", "e", "j", "e", "c", "t">>
\* An action the handler does not know.
suspend == <<"s", "u", "s", "p", "e", "n", "d">>

\* The pre-signup trigger: the response it hands back to the user pool.
PreSignup(username) ==
  [userName |-> username,
   response |-> [autoConfirmUser |-> TRUE, autoVerifyEmail |-> TRUE]]

\* Sign-up as the user pool carries it out with the trigger's response: the
\* account is confirmed as the trigger says; the trigger has no say on
\* whether the account is enabled, and the pool creates it enabled.
SignedUp(accounts, trigger) ==
  accounts \cup {Account(trigger.userName, trigger.response.autoConfirmUser,
                         TRUE, {})}

\* Whether the pool lets the user sign in.
CanSignIn(accounts, username) ==
  \E a \in accounts : a.username = username /\ a.confirmed /\ a.enabled

Known(accounts, username) == \E a \in accounts : a.username = username

checkAdminStatusOpen(accounts, username, up) ==
  \/ ~up
  \/ \E a \in accounts : a.username = username /\ Admins \in a.groups

\* checkAdminStatus: adminGetUser, adminListGroupsForUser; any error gives
\* false.
checkAdminStatus(accounts, username, up) ==
  /\ up
  /\ Known(accounts, username)
  /\ \E a \in accounts : a.username = username /\ Admins \in a.groups

adminEnableUser(accounts, username) ==
  {IF a.username = username THEN [a EXCEPT !.enabled = TRUE] ELSE a :
     a \in accounts}

adminDeleteUser(accounts, username) ==
  {a \in accounts : a.username # username}

\* The approval record the handler puts; approvedAt is not carried.
ApprovalItem(username, adminUser) ==
  [userId |-> username, status |-> APPROVED, approvedBy |-> adminUser]

\* The body of an approval request after JSON.parse.
ApprovalBody(username, action) == [username |-> username, action |-> action]

\* The event: the caller's cognito:username and the body, null when the
\* client sent none.
ApprovalEvent(adminUser, body) ==
  [handler |-> "approveUser", adminUser |-> adminUser, body |-> body]

\* What the invocation leaves behind: its response, the pool and the users
\* table.
Approval(response, accounts, records) ==
  [response |-> response, accounts |-> accounts, records |-> records]

\* The approve branch: adminEnableUser, then dynamodb.put; either may throw.
Approve(username, adminUser, accounts, records, idpUp, dbUp) ==
  IF ~idpUp \/ ~Known(accounts, username)
  THEN Approval(Answer(500, "Internal server error", Absent), accounts, records)
  ELSE IF ~dbUp
  THEN Approval(Answer(500, "Internal server error", Absent),
                adminEnableUser(accounts, username), records)
  ELSE Approval(Answer(200, "User approved successfully", Absent),
                adminEnableUser(accounts, username),
                {r \in records : r.userId # username}
                  \cup {ApprovalItem(username, adminUser)})

\* The reject branch: adminDeleteUser.
Reject(username, accounts, records, idpUp) ==
  IF ~idpUp \/ ~Known(accounts, username)
  THEN Approval(Answer(500, "Internal server error", Absent), accounts, records)
  ELSE Approval(Answer(200, "User rejected and removed", Absent),
                adminDeleteUser(accounts, username), records)

\* The approval handler.
ApproveUser(event, accounts, records, checkUp, idpUp, dbUp) ==
  IF ~IsSome(event.body)
  THEN Approval(Answer(500, "Internal server error", Absent), accounts, records)
  ELSE IF Falsy(Val(event.body).username) \/ Falsy(Val(event.body).action)
  THEN Approval(Answer(400, "Missing required parameters", Absent),
                accounts, records)
  ELSE IF ~checkAdminStatus(accounts, event.adminUser, checkUp)
  THEN Approval(Answer(403, "Unauthorized: Admin privileges required", Absent),
                accounts, records)
  ELSE IF Val(event.body).action = Some(approve)
  THEN Approve(Val(Val(event.body).username), event.adminUser, accounts,
               records, idpUp, dbUp)
  ELSE IF Val(event.body).action = Some(reject)
  THEN Reject(Val(Val(event.body).username), accounts, records, idpUp)
  ELSE Approval(Answer(400, "Invalid action", Absent), accounts, records)

\* ------------------------------------------------------- state machine ---
VARIABLES
  table,    \* the blogs table: a set of entries with distinct blogId
  pending,  \* the request in flight, if any
  session,  \* the requests of one client session with their responses
  bucket,   \* the keys of the objects in the media bucket
  pool,     \* the user pool: the accounts of the identity provider
  usersTable, \* the users table: approval records
  running   \* write invocations between their read and their write

vars == <<table, pending, session, bucket, pool, usersTable, running>>

\* What the blog handlers that run in one step leave alone.
aside == <<pool, usersTable, running>>

\* The entry stored under the i-th blog id.  Creation order differs from
\* storage order; tags and mood alternate.
SlotStamp(i) ==
  Stamp(IF i % 2 = 0 THEN i - 1 ELSE IF i + 1 <= MaxEntries THEN i + 1 ELSE i)
SlotMood(i) == IF i % 2 = 1 THEN Happy ELSE Sad
SlotTags(i) == IF ((i - 1) \div 2) % 2 = 0 THEN {<<"a">>} ELSE {<<"b">>}

Entry(i, owner, vis, viewers) ==
  [blogId |-> Bid(i), userId |-> owner, createdAt |-> SlotStamp(i),
   visibility |-> Some(vis), sharedWith |-> viewers, tags |-> SlotTags(i),
   mood |-> Some(SlotMood(i)), status |-> PUBLISHED,
   title |-> <<"t">>, content |-> <<"c">>]

Sharing ==
  {<<private, Absent>>, <<public, Absent>>, <<shared, Absent>>,
   <<shared, Some({Email(Sub(2))})>>}

\* What a blog id holds: nothing, or an entry of some owner and sharing.
SlotChoices ==
  {Absent} \cup {Some(<<owner, sh>>) : owner \in Users, sh \in Sharing}

TableOf(f) ==
  {Entry(i, Val(f[i])[1], Val(f[i])[2][1], Val(f[i])[2][2]) :
     i \in {j \in 1..MaxEntries : IsSome(f[j])}}

\* Every table with at most one entry per blog id.
Tables == {TableOf(f) : f \in [1..MaxEntries -> SlotChoices]}

LimitParams == {Absent} \cup {Some(<<Digit[n + 1]>>) : n \in 1..MaxLimit}
VisibilityParams ==
  {Absent, Some(all), Some(private), Some(shared), Some(public)}
TagParams == {Absent, Some(<<"a">>)}
MoodParams == {Absent, Some(Happy)}
TermParams == {Absent, Some(<<>>), Some(<<"a">>), Some(<<"t">>)}
\* A page size above any maximum the listing could be given.
LargeLimit == <<"1", "0", "1">>
\* Filter parameters that may be present but empty.
EmptyOr(v) == {Absent, Some(<<>>), Some(v)}
DateParams == {Absent, Some(Stamp(1)), Some(Stamp(2))}
\* Tokens a client can send that no handler issued.
ForgedTokens ==
  {<<"x">>, <<"%">>, <<"n", "u", "l", "l">>, <<"7">>, <<"{", "}">>}

Init ==
  /\ table \in Tables
  /\ pending = Absent
  /\ session = <<>>
  /\ bucket = {}
  /\ pool = Provisioned
  /\ usersTable = {}
  /\ running = {}

Send(event) ==
  /\ pending = Absent
  /\ pending' = Some(event)
  /\ UNCHANGED <<table, session, bucket, aside>>

\* A first page of the filtered listing is requested.
ListFilteredRequest ==
  /\ session = <<>>
  /\ \E caller \in Users, limit \in LimitParams, vis \in VisibilityParams,
        tag \in TagParams, mood \in MoodParams :
       Send(Event("listFiltered", caller,
                  [NoParams EXCEPT !.limit = limit, !.visibility = vis,
                                   !.tag = tag, !.mood = mood],
                  <<>>))

\* A first page of the filtered listing is requested with date bounds.
DatedRequest ==
  /\ session = <<>>
  /\ \E caller \in Users, vis \in VisibilityParams,
        startDate \in DateParams, endDate \in DateParams :
       /\ <<startDate, endDate>> # <<Absent, Absent>>
       /\ Send(Event("listFiltered", caller,
                     [NoParams EXCEPT !.visibility = vis,
                                      !.startDate = startDate,
                                      !.endDate = endDate],
                     <<>>))

\* A first page of the plain listing is requested.
ListRequest ==
  /\ session = <<>>
  /\ \E caller \in Users, limit \in LimitParams,
        owner \in {Absent} \cup {Some(u) : u \in Users} :
       Send(Event("list", caller,
                  [NoParams EXCEPT !.limit = limit, !.userId = owner], <<>>))

\* A first page of a search is requested.
SearchRequest ==
  /\ session = <<>>
  /\ \E caller \in Users, limit \in LimitParams, term \in TermParams :
       Send(Event("search", caller,
                  [NoParams EXCEPT !.limit = limit, !.q = term], <<>>))

\* A request carries a continuation token the client made up.
ForgedTokenRequest ==
  /\ session = <<>>
  /\ \E h \in {"listFiltered", "list", "search"}, caller \in Users,
        token \in ForgedTokens :
       \E term \in (IF h = "search" THEN {Absent, Some(<<"t">>)} ELSE {Absent}) :
         Send(Event(h, caller,
                    [NoParams EXCEPT !.nextToken = Some(token), !.q = term],
                    <<>>))

\* A first page is requested with a very large page size.
\* Limit parameters that are not a page size: zero, a word, a negative
\* number.
OddLimits == {<<"0">>, <<"x">>, <<"-", "1">>}

\* A first page is requested with such a limit.
OddLimitRequest ==
  /\ session = <<>>
  /\ \E h \in {"listFiltered", "search"}, caller \in Users,
        limit \in OddLimits :
       Send(Event(h, caller,
                  [NoParams EXCEPT !.limit = Some(limit), !.q = Some(<<"t">>)],
                  <<>>))

LargePageRequest ==
  /\ session = <<>>
  /\ \E h \in {"listFiltered", "list", "search"}, caller \in Users :
       Send(Event(h, caller,
                  [NoParams EXCEPT !.limit = Some(LargeLimit), !.q = Some(<<"t">>)],
                  <<>>))

\* A filtered listing is requested with an empty tag or mood parameter.
EmptyFilterRequest ==
  /\ session = <<>>
  /\ \E caller \in Users, vis \in {Absent, Some(private), Some(shared)},
        tag \in EmptyOr(<<"a">>), mood \in EmptyOr(Happy) :
       /\ Some(<<>>) \in {tag, mood}
       /\ Send(Event("listFiltered", caller,
                     [NoParams EXCEPT !.visibility = vis, !.tag = tag,
                                      !.mood = mood],
                     <<>>))

\* An export of the caller's entries is requested.
ExportRequest ==
  /\ session = <<>>
  /\ \E caller \in Users, startDate \in DateParams, endDate \in DateParams,
        tag \in TagParams :
       Send(Event("export", caller,
                  [NoParams EXCEPT !.startDate = startDate, !.endDate = endDate,
                                   !.tag = tag],
                  <<>>))

\* A single entry is requested by id.
GetRequest ==
  /\ session = <<>>
  /\ \E caller \in Users, i \in 1..(MaxEntries + 1) :
       Send(Event("get", caller, NoParams, Bid(i)))

\* The client follows the nextToken of the last page with the same parameters.
NextPage ==
  /\ session # <<>>
  /\ IsSome(session[Len(session)].response.nextToken)
  /\ Send([session[Len(session)].event EXCEPT
             !.queryStringParameters.nextToken =
                session[Len(session)].response.nextToken])

\* The request in flight is addressed to handler h.
Addressed(h) == IsSome(pending) /\ Val(pending).handler = h

\* The response is returned to the client.
Return(response, up) ==
  /\ session' = Append(session, [event |-> Val(pending), response |-> response,
                                 up |-> up])
  /\ pending' = Absent
  /\ UNCHANGED <<table, aside>>

ListFilteredHandler ==
  /\ Addressed("listFiltered")
  /\ Return(ListBlogsFiltered(Val(pending), Store(table, TRUE)), TRUE)
  /\ UNCHANGED bucket

ListHandler ==
  /\ Addressed("list")
  /\ Return(ListBlogs(Val(pending), Store(table, TRUE)), TRUE)
  /\ UNCHANGED bucket

SearchHandler ==
  /\ Addressed("search")
  /\ Return(SearchBlogs(Val(pending), Store(table, TRUE)), TRUE)
  /\ UNCHANGED bucket

GetHandler ==
  /\ Addressed("get")
  /\ Return(GetBlog(Val(pending), Store(table, TRUE)), TRUE)
  /\ UNCHANGED bucket

\* The export file is put in the bucket when the query succeeded.
Exported(response) ==
  /\ Return(response, TRUE)
  /\ bucket' = IF response.statusCode = 200
               THEN bucket \cup {ExportKey(Val(pending).claims.sub)}
               ELSE bucket

ExportHandler ==
  /\ Addressed("export")
  /\ Exported(ExportBlogs(Val(pending), Store(table, TRUE)))

Next ==
  \/ ListFilteredRequest
  \/ DatedRequest
  \/ ListRequest
  \/ SearchRequest
  \/ ForgedTokenRequest
  \/ GetRequest
  \/ NextPage
  \/ ListFilteredHandler
  \/ ListHandler
  \/ SearchHandler
  \/ GetHandler
  \/ ExportRequest
  \/ ExportHandler
  \/ LargePageRequest
  \/ OddLimitRequest
  \/ EmptyFilterRequest

Spec == Init /\ [][Next]_vars

\* The handlers when the store may fail during the invocation.
ListFilteredOutage ==
  /\ Addressed("listFiltered")
  /\ \E up \in BOOLEAN :
       Return(ListBlogsFiltered(Val(pending), Store(table, up)), up)
  /\ UNCHANGED bucket

ListOutage ==
  /\ Addressed("list")
  /\ \E up \in BOOLEAN : Return(ListBlogs(Val(pending), Store(table, up)), up)
  /\ UNCHANGED bucket

SearchOutage ==
  /\ Addressed("search")
  /\ \E up \in BOOLEAN : Return(SearchBlogs(Val(pending), Store(table, up)), up)
  /\ UNCHANGED bucket

GetOutage ==
  /\ Addressed("get")
  /\ \E up \in BOOLEAN : Return(GetBlog(Val(pending), Store(table, up)), up)
  /\ UNCHANGED bucket

NextOutage ==
  \/ ListFilteredRequest
  \/ ListRequest
  \/ SearchRequest
  \/ GetRequest
  \/ NextPage
  \/ ListFilteredOutage
  \/ ListOutage
  \/ SearchOutage
  \/ GetOutage

\* The read paths over a store that may fail.
SpecOutage == Init /\ [][NextOutage]_vars

\* ------------------------------------------------------ write machine ---
\* Create, update and delete invocations, one after the other, on a table and
\* a bucket that start empty.  session holds the last exchange.
InitWrite ==
  /\ table = {}
  /\ pending = Absent
  /\ session = <<>>
  /\ bucket = {}
  /\ pool = Provisioned
  /\ usersTable = {}
  /\ running = {}

\* The invocation ran to its response.
Done(event, outcome) ==
  /\ table' = outcome.items
  /\ bucket' = outcome.objects
  /\ session' = <<[event |-> event, response |-> outcome.response,
                   up |-> TRUE]>>
  /\ UNCHANGED <<pending, aside>>

\* Request bodies: none, or an object with some of the fields.
Images == {Absent, Some(<<"i">>)}
CreateBodies ==
  {Absent, Some(Body(Absent, Some(<<"c">>), Absent, Absent)),
   Some(Body(Some(<<"t">>), Absent, Absent, Absent))} \cup
  {Some(Body(Some(<<"t">>), Some(<<"c">>), image, vis)) :
     image \in Images, vis \in {Absent, Some(shared), Some(friends)}}
UpdateBodies ==
  {Absent} \cup
  {Some(Body(Absent, Absent, image, vis)) :
     image \in Images, vis \in {Absent, Some(friends)}}

\* putObject may fail where the request carries an image.
Uploads(body) ==
  IF IsSome(body) /\ IsSome(Val(body).imageBase64) THEN BOOLEAN ELSE {TRUE}

\* uuidv4 for an image key: uuids are interchangeable, the least one that
\* names no object of the blog is drawn.
DrawImageId(blogId, objects) ==
  IF FreeImageIds(blogId, objects) = {} THEN 1
  ELSE CHOOSE n \in FreeImageIds(blogId, objects) :
         \A m \in FreeImageIds(blogId, objects) : n <= m

CreateHandler ==
  \E caller \in Users, body \in CreateBodies,
     blogId \in FreshBlogIds(table, bucket), timestamp \in Stamps :
   \E s3up \in Uploads(body) :
    Done(WriteEvent("create", caller, <<>>, body),
         CreateBlog(WriteEvent("create", caller, <<>>, body), table, bucket,
                    blogId, DrawImageId(blogId, bucket), timestamp, s3up))

CreatePlainHandler ==
  \E caller \in Users, body \in CreateBodies,
     blogId \in FreshBlogIds(table, bucket), timestamp \in Stamps :
   \E s3up \in Uploads(body) :
    Done(WriteEvent("createPlain", caller, <<>>, body),
         CreateBlogPlain(WriteEvent("createPlain", caller, <<>>, body), table,
                         bucket, blogId, DrawImageId(blogId, bucket),
                         timestamp, s3up))

\* An upload is requested only while the blog has an image uuid left.
UpdateHandler ==
  \E caller \in Users, blogId \in BlogIds, body \in UpdateBodies :
   \E s3up \in Uploads(body) :
    /\ (IsSome(body) /\ IsSome(Val(body).imageBase64))
         => FreeImageIds(blogId, bucket) # {}
    /\ Done(WriteEvent("update", caller, blogId, body),
            UpdateBlog(WriteEvent("update", caller, blogId, body), table,
                       bucket, DrawImageId(blogId, bucket), s3up))

DeleteHandler ==
  \E caller \in Users, blogId \in BlogIds :
    /\ pending = Absent
    /\ Done(WriteEvent("delete", caller, blogId, Absent),
            DeleteBlog(WriteEvent("delete", caller, blogId, Absent), table,
                       bucket))

NextWrite ==
  \/ CreateHandler
  \/ CreatePlainHandler
  \/ UpdateHandler
  \/ DeleteHandler

SpecWrite == InitWrite /\ [][NextWrite]_vars

\* ------------------------------------------------------ admin machine ---
\* Sign-ups and approval requests, one after the other, with an empty users
\* table at the start.  session holds the last exchange.
ApprovalBodies ==
  {Absent} \cup
  {Some(ApprovalBody(username, action)) :
     username \in {Absent} \cup {Some(u) : u \in Users},
     action \in {Absent, Some(approve), Some(reject), Some(suspend)}}

\* A user who has no account signs up; the pre-signup trigger runs.
SignUp ==
  \E username \in Users :
    /\ ~Known(pool, username)
    /\ pool' = SignedUp(pool, PreSignup(username))
    /\ session' = <<>>
    /\ UNCHANGED <<table, bucket, pending, usersTable, running>>

\* The approval handler ran to its response; checked records whether the
\* calls of checkAdminStatus went through.
Settled(event, approval, checked) ==
  /\ pool' = approval.accounts
  /\ usersTable' = approval.records
  /\ session' = <<[event |-> event, response |-> approval.response,
                   up |-> checked]>>
  /\ UNCHANGED <<table, bucket, pending, running>>

ApproveUserHandler ==
  \E adminUser \in Users \cup {root}, body \in ApprovalBodies,
     checkUp \in BOOLEAN, idpUp \in BOOLEAN, dbUp \in BOOLEAN :
    /\ pending = Absent
    /\ Settled(ApprovalEvent(adminUser, body),
               ApproveUser(ApprovalEvent(adminUser, body), pool, usersTable,
                           checkUp, idpUp, dbUp),
               checkUp)

\* The pool at the start: the administrator's account and, for some users,
\* an account that awaits approval, disabled.
InitAdmin ==
  /\ table = {}
  /\ pending = Absent
  /\ session = <<>>
  /\ bucket = {}
  /\ \E waiting \in SUBSET Users :
       pool = Provisioned \cup {Account(u, TRUE, FALSE, {}) : u \in waiting}
  /\ usersTable = {}
  /\ running = {}

NextAdmin ==
  \/ SignUp
  \/ ApproveUserHandler

SpecAdmin == InitAdmin /\ [][NextAdmin]_vars

\* ------------------------------------------------ concurrent machine ---
\* Update and delete invocations that run at the same time: each takes its
\* steps (read, object store calls, write) in order, interleaved with the
\* steps of the others.  session holds the exchanges of the invocations that
\* have returned, running the others.

\* An invocation past its checks: the item it read, its imageUrls value,
\* the key it uploaded and the step it is about to take.
Invocation(n, event, blog, pc) ==
  [n |-> n, event |-> event, blog |-> blog,
   imageUrls |-> IF IsSome(blog.imageUrls) THEN Val(blog.imageUrls) ELSE <<>>,
   uploaded |-> Absent, pc |-> pc]

Started == Len(session) + Cardinality(running)

\* The objects an entry refers to.
Attachments(e) ==
  (IF IsSome(e.imageUrls) THEN Range(Val(e.imageUrls)) ELSE {})
    \cup Range(e.imageUrl)

\* The keys uuidv4 has been drawn for: those of objects in the bucket and
\* those an entry, an invocation or a response refers to.
IssuedKeys ==
  bucket
    \cup UNION {Attachments(e) : e \in table}
    \cup UNION {Attachments(v.blog) \cup Range(v.imageUrls) : v \in running}
    \cup UNION {Range(session[i].uploaded) : i \in DOMAIN session}

\* The invocation returned.
Returned(event, response, uploaded) ==
  session' = Append(session, [event |-> event, response |-> response,
                              up |-> TRUE, uploaded |-> uploaded])

\* The entry at the start: created by the create handler, with one image or
\* none, or by the create variant with its single image.
FirstBody == Body(Some(<<"t">>), Some(<<"c">>), Absent, Some(private))
FirstEntries ==
  {blogItem(Bid(1), Sub(1), FirstBody, <<>>, Stamp(1)),
   blogItem(Bid(1), Sub(1), FirstBody, <<ImageKey(Bid(1), 1)>>, Stamp(1)),
   blogItemPlain(Bid(1), Sub(1), FirstBody, Some(ImageKey(Bid(1), 1)),
                 Stamp(1))}

InitRace ==
  /\ \E e \in FirstEntries :
       /\ table = {e}
       /\ bucket = (IF IsSome(e.imageUrls) THEN Range(Val(e.imageUrls)) ELSE {})
                     \cup Range(e.imageUrl)
  /\ pending = Absent
  /\ session = <<>>
  /\ pool = Provisioned
  /\ usersTable = {}
  /\ running = {}

\* update, create/index.js:264-296: body, get, existence and ownership
\* checks.  A refused request returns at once.
UpdateRead ==
  \E caller \in Users, blogId \in BlogIds, body \in UpdateBodies :
    /\ Started < MaxRacers
    /\ (IsSome(body) /\ IsSome(Val(body).imageBase64)) =>
         Cardinality(FreeImageIds(blogId, IssuedKeys))
           > Cardinality({v \in running : v.pc = "upload"})
    /\ IF UpdateBlog(WriteEvent("update", caller, blogId, body), table,
                     bucket, 1, FALSE).response.statusCode # 200
       THEN /\ Returned(WriteEvent("update", caller, blogId, body),
                        UpdateBlog(WriteEvent("update", caller, blogId, body),
                                   table, bucket, 1, FALSE).response,
                        Absent)
            /\ UNCHANGED running
       ELSE /\ running' = running \cup
                 {Invocation(Started + 1,
                             WriteEvent("update", caller, blogId, body),
                             CHOOSE e \in GetItem(table, blogId) : TRUE,
                             IF IsSome(Val(body).imageBase64) THEN "upload"
                             ELSE "write")}
            /\ UNCHANGED session
    /\ UNCHANGED <<table, bucket, pending, pool, usersTable>>

\* update, create/index.js:298-312: uploadImage and the push of its key.
UpdateUpload ==
  \E v \in running, s3up \in BOOLEAN :
    /\ v.pc = "upload"
    /\ bucket' = uploadImage(v.event.blogId,
                             DrawImageId(v.event.blogId, IssuedKeys), bucket,
                             s3up).objects
    /\ running' = (running \ {v}) \cup
         {[v EXCEPT
             !.imageUrls =
               Pushed(@, uploadImage(v.event.blogId,
                                     DrawImageId(v.event.blogId, IssuedKeys),
                                     bucket, s3up)),
             !.uploaded =
               uploadImage(v.event.blogId,
                           DrawImageId(v.event.blogId, IssuedKeys), bucket,
                           s3up).key,
             !.pc = "write"]}
    /\ UNCHANGED <<table, session, pending, pool, usersTable>>

\* update, create/index.js:314-372: dynamodb.update and the 200.
UpdateWrite ==
  \E v \in running :
    /\ v.pc = "write"
    /\ table' = UpdateItem(table, v.event.blogId, Val(v.event.body),
                           v.imageUrls)
    /\ Returned(v.event,
                Answer(200, "Blog post updated successfully",
                       Some(v.event.blogId)),
                v.uploaded)
    /\ running' = running \ {v}
    /\ UNCHANGED <<bucket, pending, pool, usersTable>>

\* delete, part_009:131-159: get, existence and ownership checks.
DeleteRead ==
  \E caller \in Users, blogId \in BlogIds :
    /\ Started < MaxRacers
    /\ IF DeleteBlog(WriteEvent("delete", caller, blogId, Absent), table,
                     bucket).response.statusCode # 200
       THEN /\ Returned(WriteEvent("delete", caller, blogId, Absent),
                        DeleteBlog(WriteEvent("delete", caller, blogId, Absent),
                                   table, bucket).response,
                        Absent)
            /\ UNCHANGED running
       ELSE /\ running' = running \cup
                 {Invocation(Started + 1,
                             WriteEvent("delete", caller, blogId, Absent),
                             CHOOSE e \in GetItem(table, blogId) : TRUE,
                             "objects")}
            /\ UNCHANGED session
    /\ UNCHANGED <<table, bucket, pending, pool, usersTable>>

\* delete, part_009:161-171 and 187-194: the deleteObject calls of
\* Promise.all; gone are the ones that went through.  When one failed the
\* catch answers 500 and the delete of the record is not reached.
DeleteObjects ==
  \E v \in running :
    /\ v.pc = "objects"
    /\ \E gone \in SUBSET Removed(v.blog) :
         /\ bucket' = bucket \ gone
         /\ IF gone = Removed(v.blog)
            THEN /\ running' = (running \ {v}) \cup {[v EXCEPT !.pc = "record"]}
                 /\ UNCHANGED session
            ELSE /\ running' = running \ {v}
                 /\ Returned(v.event,
                             Answer(500, "Error deleting blog post", Absent),
                             Absent)
    /\ UNCHANGED <<table, pending, pool, usersTable>>

\* delete, part_009:173-186: dynamodb.delete and the 200.
DeleteRecord ==
  \E v \in running :
    /\ v.pc = "record"
    /\ table' = DeleteItem(table, v.event.blogId)
    /\ Returned(v.event, Answer(200, "Blog post deleted successfully", Absent),
                Absent)
    /\ running' = running \ {v}
    /\ UNCHANGED <<bucket, pending, pool, usersTable>>

NextRace ==
  \/ UpdateRead
  \/ UpdateUpload
  \/ UpdateWrite
  \/ DeleteRead
  \/ DeleteObjects
  \/ DeleteRecord

SpecRace == InitRace /\ [][NextRace]_vars

\* ---------------------------------------------------------- properties ---
Ev(i) == session[i].event
Resp(i) == session[i].response
Qp(i) == session[i].event.queryStringParameters
Caller(i) == session[i].event.claims.sub
Ok(i) == Resp(i).statusCode = 200
Paged(i) == Ev(i).handler \in {"listFiltered", "list", "search"}
\* The page size k a request asks for.
PageSize(i) == ParseIntOr(Qp(i).limit, DefaultLimit)
\* The items returned by the pages up to the i-th.
ItemsUpTo(i) == UNION {Range(Resp(j).items) : j \in 1..i}
\* Exchange i asks for the page after exchange i - 1.
Continues(i) ==
  /\ i > 1
  /\ Paged(i)
  /\ IsSome(Resp(i - 1).nextToken)
  /\ Qp(i).nextToken = Resp(i - 1).nextToken

\* An entry satisfies every predicate the filtered listing request supplies.
Satisfies(e, qp) ==
  /\ OrElse(qp.visibility, all) # all => e.visibility = Some(OrElse(qp.visibility, all))
  /\ ~Falsy(qp.tag) => Val(qp.tag) \in e.tags
  /\ ~Falsy(qp.mood) => e.mood = qp.mood
  /\ ~Falsy(qp.startDate) => StrLeq(Val(qp.startDate), e.createdAt)
  /\ ~Falsy(qp.endDate) => StrLeq(e.createdAt, Val(qp.endDate))

\* The entries a filtered listing is to return: the caller's own, or the
\* public ones of any owner for the public scope.
Wanted(i) ==
  {e \in table :
     /\ Satisfies(e, Qp(i))
     /\ e.userId = Caller(i) \/ OrElse(Qp(i).visibility, all) = public}

Descending(q) ==
  \A m, n \in DOMAIN q : m < n => StrLess(q[n].createdAt, q[m].createdAt)

\* C1: every page of the filtered listing holds at most pageSize items, and
\* carries a nextToken exactly when matching items exist beyond the pages
\* returned so far.
C1_PageSizeBound ==
  \A i \in DOMAIN session :
    (Ev(i).handler = "listFiltered" /\ Ok(i)) =>
      /\ Len(Resp(i).items) <= PageSize(i)
      /\ IsSome(Resp(i).nextToken) <=> (Wanted(i) \ ItemsUpTo(i) # {})

\* C2: two consecutive listing pages are together sorted strictly descending
\* by creation timestamp, and no wanted entry between their first and last
\* item is left out.
C2_ConsecutivePagesDescending ==
  \A i \in DOMAIN session :
    (Continues(i) /\ Ev(i).handler \in {"listFiltered", "list"}
       /\ Ok(i - 1) /\ Ok(i)) =>
      LET both == Resp(i - 1).items \o Resp(i).items
      IN /\ Descending(both)
         /\ \A w \in Wanted(i) :
              (both # <<>>
                 /\ StrLeq(both[Len(both)].createdAt, w.createdAt)
                 /\ StrLeq(w.createdAt, both[1].createdAt)) => w \in Range(both)

\* The key the store returned with the page of exchange i.
StoreKeyOf(i) ==
  IF Resp(i).calls[1].op = "query"
  THEN Query(Resp(i).calls[1], Store(table, TRUE)).LastEvaluatedKey
  ELSE Scan(Resp(i).calls[1], Store(table, TRUE)).LastEvaluatedKey

\* The keys the store can return for the table.
StoreKeys == {IndexKeyOf(e) : e \in table} \cup {TableKeyOf(e) : e \in table}

\* C3: the request that carries the nextToken of page N starts the store
\* read at exactly the last-evaluated key the store returned with page N,
\* succeeds, and returns no item that page N returned; and for every table,
\* decoding the token either listing handler encodes for a key of the store
\* yields that key.
C3_RoundTripCursor ==
  /\ \A i \in DOMAIN session :
       Continues(i) =>
         /\ Ok(i)
         /\ Len(Resp(i).calls) = 1
         /\ Resp(i).calls[1].ExclusiveStartKey = StoreKeyOf(i - 1)
         /\ Range(Resp(i).items) \cap Range(Resp(i - 1).items) = {}
  /\ \A k \in (IF session = <<>> /\ pending = <<>> THEN StoreKeys ELSE {}) :
       /\ KeyFrom(UriToken(Some(k)),
                  decodeURIComponent(Val(UriToken(Some(k))))).key = Some(k)
       /\ KeyFrom(Base64Token(Some(k)),
                  [ok |-> TRUE,
                   val |-> fromBase64(Val(Base64Token(Some(k))))]).key = Some(k)

\* C3 witness: two consecutive non-empty pages have been served.
C3_Witness ==
  \E i \in DOMAIN session :
    Continues(i) /\ Resp(i).items # <<>> /\ Resp(i - 1).items # <<>>

\* The caller's own entries.
Own(i) == {e \in table : e.userId = Caller(i)}

\* C4: with two own entries, scope all and pageSize 1, the first page is the
\* newer entry with a nextToken and the second page the older entry without
\* one; and a page that returns the last matching entry carries no nextToken.
C4_TwoEntryScenario ==
  /\ (/\ session # <<>>
      /\ Ev(1).handler = "listFiltered"
      /\ Qp(1) \in {[NoParams EXCEPT !.limit = Some(<<"1">>), !.visibility = v] :
                      v \in {Absent, Some(all)}}
      /\ Cardinality(Own(1)) = 2) =>
       /\ Ok(1)
       /\ Len(Resp(1).items) = 1
       /\ \A e \in Own(1) : StrLeq(e.createdAt, Resp(1).items[1].createdAt)
       /\ IsSome(Resp(1).nextToken)
       /\ Len(session) >= 2 =>
            /\ Ok(2)
            /\ Len(Resp(2).items) = 1
            /\ \A e \in Own(1) : StrLeq(Resp(2).items[1].createdAt, e.createdAt)
            /\ ~IsSome(Resp(2).nextToken)
  /\ \A i \in DOMAIN session :
       (Ev(i).handler = "listFiltered" /\ Ok(i) /\ Resp(i).items # <<>>
          /\ Wanted(i) \subseteq ItemsUpTo(i)) => ~IsSome(Resp(i).nextToken)

\* C5: every item a filtered listing returns satisfies every predicate the
\* request supplies (visibility, date bounds, tag, mood), and the complete
\* paged result of a listing whose pages all succeeded omits none of the
\* caller's entries that satisfy them all.
C5_FilterConjunction ==
  /\ \A i \in DOMAIN session :
       (Ev(i).handler = "listFiltered" /\ Ok(i)) =>
         \A e \in Range(Resp(i).items) : Satisfies(e, Qp(i))
  /\ (/\ session # <<>>
      /\ pending = Absent
      /\ Ev(1).handler = "listFiltered"
      /\ ~IsSome(Qp(1).nextToken)
      /\ \A i \in DOMAIN session : Ok(i)
      /\ ~IsSome(Resp(Len(session)).nextToken)) =>
       {e \in Own(1) : Satisfies(e, Qp(1))} \subseteq ItemsUpTo(Len(session))

\* The entry a get request names, as a set.
Named(i) == {e \in table : e.blogId = Ev(i).blogId}

\* C6: get of a shared entry by a caller other than its owner is answered 403
\* when the caller's email is not in the viewer list or the list is absent,
\* and with the entry when the email is in the list.
C6_SharedVisibility ==
  \A i \in DOMAIN session :
    \A e \in Named(i) :
      (Ev(i).handler = "get" /\ e.visibility = Some(shared)
         /\ e.userId # Caller(i)) =>
        IF IsSome(e.sharedWith) /\ Ev(i).claims.email \in Val(e.sharedWith)
        THEN Ok(i) /\ Resp(i).items = <<e>>
        ELSE Resp(i).statusCode = 403 /\ Resp(i).items = <<>>

\* C6 witness: a caller outside the viewer list of an existing shared entry of
\* another owner has been denied.
C6_Witness ==
  \E i \in DOMAIN session :
    \E e \in Named(i) :
      /\ Ev(i).handler = "get"
      /\ e.visibility = Some(shared)
      /\ e.userId # Caller(i)
      /\ Resp(i).statusCode = 403

C8_OwnerKeyFromAuth ==
  \A i \in DOMAIN session :
    Ev(i).handler \in {"listFiltered", "list"} =>
      \A c \in Range(Resp(i).calls) :
        IsSome(c.KeyConditionExpression) =>
          c.KeyConditionExpression = Some(Caller(i))

\* C9: a filtered listing with scope public is served by a scan and answered
\* 200; one with scope shared is answered 200.
C9_PublicScopeScan ==
  \A i \in DOMAIN session :
    (Ev(i).handler = "listFiltered" /\ ~IsSome(Qp(i).nextToken)
       /\ Qp(i).visibility \in {Some(public), Some(shared)}) =>
      /\ Ok(i)
      /\ Qp(i).visibility = Some(public) =>
           Len(Resp(i).calls) = 1 /\ Resp(i).calls[1].op = "scan"

\* C10: a continuation token that does not decode to a store key is answered
\* with a 4xx status and without a store call.
C10_MalformedToken ==
  \A i \in DOMAIN session :
    (Ev(i).handler \in {"listFiltered", "search"} /\ IsSome(Qp(i).nextToken)
       /\ Val(Qp(i).nextToken) \in ForgedTokens) =>
      /\ Resp(i).statusCode \in 400..499
      /\ Resp(i).calls = <<>>

\* Exchange i supplies one or both bounds of a date range.
DateBound(i) == ~Falsy(Qp(i).startDate) \/ ~Falsy(Qp(i).endDate)

\* C11: a filtered listing whose date range has start after end is answered
\* with a 4xx status and without a store call.
C11_InvertedDateRange ==
  \A i \in DOMAIN session :
    (/\ Ev(i).handler = "listFiltered"
     /\ Dated(Qp(i))
     /\ StrLess(Val(Qp(i).endDate), Val(Qp(i).startDate))) =>
      /\ Resp(i).statusCode \in 400..499
      /\ Resp(i).calls = <<>>

\* C12: a listing or export that supplies one or both date bounds succeeds
\* and returns exactly the caller's entries within the bounds supplied (and
\* satisfying the other predicates of the request).
C12_DateRangeExact ==
  \A i \in DOMAIN session :
    (/\ Ev(i).handler \in {"listFiltered", "export"}
     /\ DateBound(i)
     /\ OrElse(Qp(i).visibility, all) = all
     /\ ~IsSome(Qp(i).nextToken) /\ ~IsSome(Qp(i).limit)) =>
      /\ Ok(i)
      /\ Range(Resp(i).items) = {e \in Own(i) : Satisfies(e, Qp(i))}

\* C13: a page size above the maximum (100) never errors and is clamped: no
\* store call of a listing or search carries a Limit above the maximum.
C13_PageSizeClamped ==
  \A i \in DOMAIN session :
    (Paged(i) /\ Qp(i).limit = Some(LargeLimit)) =>
      /\ Ev(i).handler # "list" => Ok(i)
      /\ \A c \in Range(Resp(i).calls) : c.Limit <= 100

\* The parameters of exchange i with empty tag and mood left out.
Omitted(o) == IF o = Some(<<>>) THEN Absent ELSE o
WithoutEmpty(i) ==
  [Ev(i) EXCEPT !.queryStringParameters.tag = Omitted(Qp(i).tag),
                !.queryStringParameters.mood = Omitted(Qp(i).mood)]

\* C14: a filtered listing with an empty tag or mood makes the same store
\* call and gets the same response as the request with that parameter omitted.
C14_EmptyFilterIgnored ==
  \A i \in DOMAIN session :
    Ev(i).handler = "listFiltered" =>
      Resp(i) = ListBlogsFiltered(WithoutEmpty(i), Store(table, session[i].up))

\* C14 witness: a listing with an empty tag or mood has returned entries.
C14_Witness ==
  \E i \in DOMAIN session :
    /\ Ev(i).handler = "listFiltered"
    /\ Some(<<>>) \in {Qp(i).tag, Qp(i).mood}
    /\ Ok(i) /\ Resp(i).items # <<>>

\* C15: a search without a term, or with an empty one, is answered 400 with a
\* message and without a store call; a search with a term is answered 200
\* (the store answering, the request carrying no token or the one issued).
C15_SearchTermRequired ==
  \A i \in DOMAIN session :
    Ev(i).handler = "search" =>
      IF Falsy(Qp(i).q)
      THEN /\ Resp(i).statusCode = 400
           /\ IsSome(Resp(i).message)
           /\ Resp(i).calls = <<>>
      ELSE (session[i].up /\ (~IsSome(Qp(i).nextToken) \/ Continues(i))) => Ok(i)

Target(x) == {e \in table : e.blogId = x.event.blogId}
NotOwner(x) == \E e \in Target(x) : e.userId # x.event.claims.sub
StoresUnchanged == table' = table /\ bucket' = bucket
\* C17: an update by a caller who is not the owner is answered 403 and
\* leaves the table and the bucket unchanged; an update of an id that names
\* no entry is answered 404 and leaves them unchanged.
C17_UpdateOnlyByOwner ==
  [][\A i \in DOMAIN session' :
       session'[i].event.handler = "update" =>
         /\ NotOwner(session'[i]) =>
              session'[i].response.statusCode = 403 /\ StoresUnchanged
         /\ Target(session'[i]) = {} =>
              session'[i].response.statusCode = 404 /\ StoresUnchanged]_vars

\* An update that is not the owner's, or names no entry, is refused and
\* changes neither the table nor the bucket, whatever its body.
UpdateRefusedWithoutEffect ==
  [][\A i \in DOMAIN session' :
       (/\ session'[i].event.handler = "update"
        /\ NotOwner(session'[i]) \/ Target(session'[i]) = {}) =>
         /\ session'[i].response.statusCode \in {403, 404, 500}
         /\ (IsSome(session'[i].event.body) =>
               session'[i].response.statusCode =
                 IF Target(session'[i]) = {} THEN 404 ELSE 403)
         /\ StoresUnchanged]_vars

\* C18: a delete by a caller who is not the owner is answered 403 and
\* removes nothing; after a delete answered 200 the table holds no entry
\* with the id and the bucket none of the objects the entry referred to.
C18_DeleteOnlyByOwner ==
  [][\A i \in DOMAIN session' :
       session'[i].event.handler = "delete" =>
         /\ NotOwner(session'[i]) =>
              session'[i].response.statusCode = 403 /\ StoresUnchanged
         /\ session'[i].response.statusCode = 200 =>
              /\ \A e \in Target(session'[i]) :
                   /\ e.userId = session'[i].event.claims.sub
                   /\ Attachments(e) \cap bucket' = {}
              /\ \A f \in table' : f.blogId # session'[i].event.blogId]_vars

\* A delete removes the record only for the owner, and with it the objects
\* listed in imageUrls.
DeleteRemovesListedImages ==
  [][\A i \in DOMAIN session' :
       session'[i].event.handler = "delete" =>
         /\ NotOwner(session'[i]) =>
              session'[i].response.statusCode = 403 /\ StoresUnchanged
         /\ session'[i].response.statusCode = 200 =>
              /\ \A e \in Target(session'[i]) :
                   /\ e.userId = session'[i].event.claims.sub
                   /\ Removed(e) \cap bucket' = {}
              /\ \A f \in table' : f.blogId # session'[i].event.blogId]_vars

\* C19: no invocation changes the userId or createdAt of an entry that stays
\* in the table, and every entry in the table has the userId and createdAt
\* of a creation.
C19_IdentityKept ==
  [][/\ \A e \in table, f \in table' :
          e.blogId = f.blogId =>
            f.userId = e.userId /\ f.createdAt = e.createdAt
     /\ \A f \in table' :
          /\ f.blogId \in BlogIds /\ f.userId \in Users
          /\ f.createdAt \in Stamps
     /\ \A i \in DOMAIN session' :
          session'[i].response.statusCode = 201 =>
            \E f \in table' \ table :
              /\ Some(f.blogId) = session'[i].response.blogId
              /\ f.userId = session'[i].event.claims.sub]_vars

\* C19 witness: the owner's update has changed the visibility and the images
\* of an entry.
C19_Witness ==
  \E i \in DOMAIN session, e \in table :
    /\ session[i].event.handler = "update"
    /\ session[i].response.statusCode = 200
    /\ e.blogId = session[i].event.blogId
    /\ e.userId = session[i].event.claims.sub
    /\ e.visibility = Some(friends)
    /\ IsSome(e.imageUrls) /\ Len(Val(e.imageUrls)) = 2

\* C20: every entry in the table has visibility private, shared or public.
C20_VisibilityInVocabulary ==
  \A e \in table : e.visibility \in {Some(private), Some(shared), Some(public)}

\* The body of a write request, with every field absent when there is none.
BodyOf(x) ==
  IF IsSome(x.event.body) THEN Val(x.event.body)
  ELSE Body(Absent, Absent, Absent, Absent)
Creates(x) == x.event.handler \in {"create", "createPlain"}

\* C21: a create request without title or content is answered 400 and
\* changes neither the table nor the bucket; a create answered 201 has stored
\* an entry with the id, the caller as owner, title, content, a visibility,
\* tags, a creation timestamp and an object key for the image submitted, the
\* object being in the bucket.
C21_CreatedInFullOrNotAtAll ==
  [][\A i \in DOMAIN session' :
       Creates(session'[i]) =>
         /\ (Falsy(BodyOf(session'[i]).title)
               \/ Falsy(BodyOf(session'[i]).content)) =>
              session'[i].response.statusCode = 400 /\ StoresUnchanged
         /\ session'[i].response.statusCode = 201 =>
              \E f \in table' \ table :
                /\ Some(f.blogId) = session'[i].response.blogId
                /\ f.userId = session'[i].event.claims.sub
                /\ f.title = Val(BodyOf(session'[i]).title)
                /\ f.content = Val(BodyOf(session'[i]).content)
                /\ IsSome(f.visibility) /\ IsSome(f.tags)
                /\ f.createdAt \in Stamps
                /\ IsSome(BodyOf(session'[i]).imageBase64) =>
                     Attachments(f) # {} /\ Attachments(f) \subseteq bucket']_vars

\* A create answered 400 or 500 changes neither the table nor the bucket,
\* and a record is stored only with a 201, with the caller as owner and the
\* title and content of the request.
CreateRefusedWithoutEffect ==
  [][\A i \in DOMAIN session' :
       Creates(session'[i]) =>
         /\ session'[i].response.statusCode \in {201, 400, 500}
         /\ session'[i].response.statusCode # 201 => StoresUnchanged
         /\ (IsSome(session'[i].event.body)
               /\ (Falsy(BodyOf(session'[i]).title)
                     \/ Falsy(BodyOf(session'[i]).content))) =>
              session'[i].response.statusCode = 400
         /\ session'[i].response.statusCode = 201 =>
              \E f \in table' \ table :
                /\ Some(f.blogId) = session'[i].response.blogId
                /\ f.userId = session'[i].event.claims.sub
                /\ f.title = Val(BodyOf(session'[i]).title)
                /\ f.content = Val(BodyOf(session'[i]).content)
                /\ Attachments(f) \subseteq bucket']_vars

\* ---------------------------------------------------- admin properties ---
InAdmins(accounts, username) ==
  \E a \in accounts : a.username = username /\ Admins \in a.groups
\* The exchange is an approval or rejection of a named user.
Decides(x) ==
  /\ x.event.handler = "approveUser"
  /\ IsSome(x.event.body)
  /\ ~Falsy(Val(x.event.body).username)
  /\ Val(x.event.body).action \in {Some(approve), Some(reject)}
Decided(x) == Val(Val(x.event.body).username)
Enabled(accounts, username) ==
  \E a \in accounts : a.username = username /\ a.enabled
ApprovedBy(records, username, adminUser) ==
  \E r \in records :
    r.userId = username /\ r.status = APPROVED /\ r.approvedBy = adminUser

\* C22: an approval or rejection of a user by a caller who is not in Admins,
\* or whose admin check met an error, is answered 403 and changes neither
\* the pool nor the users table; no request of such a caller changes them.
C22_OnlyAdminsDecide ==
  [][\A i \in DOMAIN session' :
       (/\ session'[i].event.handler = "approveUser"
        /\ ~InAdmins(pool, session'[i].event.adminUser) \/ ~session'[i].up) =>
         /\ Decides(session'[i]) => session'[i].response.statusCode = 403
         /\ session'[i].response.statusCode \in {400, 403, 500}
         /\ pool' = pool /\ usersTable' = usersTable]_vars

\* C22 witness: an approval by a caller outside Admins, or one whose admin
\* check met an error, was answered 403 while the user awaits a decision.
C22_Witness ==
  \E i \in DOMAIN session :
    /\ Decides(session[i])
    /\ session[i].response.statusCode = 403
    /\ Known(pool, Decided(session[i]))
    /\ session[i].event.adminUser = root => ~session[i].up

\* C23: a user who can sign in has been approved by an administrator.
C23_NoSignInBeforeApproval ==
  \A u \in Users :
    CanSignIn(pool, u) => \E r \in usersTable : r.userId = u /\ r.status = APPROVED

\* C29: after an approval answered 200 or 500 the user is enabled in the
\* pool exactly if the users table holds an APPROVED record of the user that
\* names the approving administrator.
C29_ApprovalAllOrNothing ==
  [][\A i \in DOMAIN session' :
       (/\ Decides(session'[i])
        /\ Val(session'[i].event.body).action = Some(approve)
        /\ session'[i].response.statusCode \in {200, 500}) =>
         (Enabled(pool', Decided(session'[i]))
            <=> ApprovedBy(usersTable', Decided(session'[i]),
                           session'[i].event.adminUser))]_vars

\* An approval answered 200 leaves the user enabled with an APPROVED record
\* naming the administrator; a rejection answered 200 leaves no account.
DecisionCarriedOut ==
  [][\A i \in DOMAIN session' :
       (Decides(session'[i]) /\ session'[i].response.statusCode = 200) =>
         IF Val(session'[i].event.body).action = Some(approve)
         THEN /\ Enabled(pool', Decided(session'[i]))
              /\ ApprovedBy(usersTable', Decided(session'[i]),
                            session'[i].event.adminUser)
         ELSE ~Known(pool', Decided(session'[i]))]_vars

\* C24: the Limit of every store call of the filtered listing and the search
\* is at least 1, and it is 10 when the limit parameter is absent, not a
\* number or zero.
C24_PositiveLimit ==
  \A i \in DOMAIN session :
    Ev(i).handler \in {"listFiltered", "search"} =>
      \A c \in Range(Resp(i).calls) :
        /\ c.Limit >= 1
        /\ (~IsSome(Qp(i).limit) \/ Val(Qp(i).limit) \in {<<"0">>, <<"x">>}) =>
             c.Limit = DefaultLimit

\* Whether the caller of exchange i may read entry e: the owner, anyone for
\* a public entry, the viewers for a shared one.
MayRead(i, e) ==
  \/ e.userId = Caller(i)
  \/ e.visibility = Some(public)
  \/ /\ e.visibility = Some(shared)
     /\ IsSome(e.sharedWith) /\ Ev(i).claims.email \in Val(e.sharedWith)

Appended ==
  IF Len(session') = Len(session) + 1 THEN {session'[Len(session')]} ELSE {}
Deleted200(x) ==
  x.event.handler = "delete" /\ x.response.statusCode = 200
Uploaded200(x) ==
  /\ x.event.handler = "update" /\ x.response.statusCode = 200
  /\ IsSome(x.uploaded)

\* C26: once a delete of an id has returned 200 the table holds no entry
\* with the id, and every entry in the table has an owner id and a creation
\* timestamp.
C26_NoPartialRecord ==
  /\ \A i \in DOMAIN session :
       Deleted200(session[i]) =>
         \A e \in table : e.blogId # session[i].event.blogId
  /\ \A e \in table : e.userId \in Users /\ e.createdAt \in Stamps

\* Without an update in flight at the time of the delete, the delete leaves
\* no entry with the id, and entries written by updates that read an existing
\* entry keep owner id and creation timestamp.
NoPartialRecordUnlessRaced ==
  [][\A x \in Appended :
       (Deleted200(x) /\ \A v \in running : v.event.handler # "update") =>
         /\ \A e \in table' : e.blogId # x.event.blogId
         /\ \A e \in table' : e.userId \in Users /\ e.createdAt \in Stamps]_vars

\* C27: after two updates of an entry have each uploaded an image and
\* returned 200, the entry's imageUrls holds both keys, and every object of
\* the entry in the bucket is referred to by the entry.
C27_NoLostAttachment ==
  \A i, j \in DOMAIN session :
    (/\ i < j
     /\ Uploaded200(session[i]) /\ Uploaded200(session[j])
     /\ session[i].event.blogId = session[j].event.blogId) =>
      \A e \in table :
        e.blogId = session[i].event.blogId =>
          /\ IsSome(e.imageUrls)
          /\ {Val(session[i].uploaded), Val(session[j].uploaded)}
               \subseteq Range(Val(e.imageUrls))
          /\ \A k \in bucket : k[2] = e.blogId => k \in Attachments(e)

\* The update that returns last has its own key in imageUrls, and no key
\* that was in imageUrls when it read the entry is lost.
LastWriterKeepsItsKeys ==
  [][\A x \in Appended :
       Uploaded200(x) =>
         \A e \in table' :
           e.blogId = x.event.blogId =>
             IsSome(e.imageUrls) /\ Val(x.uploaded) \in Range(Val(e.imageUrls))]_vars

\* C28: a delete whose deleteObject calls did not all succeed is answered
\* 500 and leaves the record; the record is removed only when the objects
\* the delete read are gone; and no object of an entry is in the bucket
\* while the table has no record of the entry.
C28_RecordOutlivesAttachments ==
  [][/\ \A v \in running :
          (v.pc = "objects" /\ \A w \in running' : w.n # v.n) =>
            /\ table' = table
            /\ \E x \in Appended : x.event = v.event /\ x.response.statusCode = 500
     /\ \A v \in running :
          (v.pc = "record" /\ \A w \in running' : w.n # v.n) =>
            Removed(v.blog) \cap bucket' = {}
     /\ \A k \in bucket' : \E e \in table' : e.blogId = k[2]]_vars

\* The part of C28 about the order of the delete's steps.
RecordRemovedAfterObjects ==
  [][/\ \A v \in running :
          (v.pc = "objects" /\ \A w \in running' : w.n # v.n) =>
            /\ table' = table
            /\ \E x \in Appended : x.event = v.event /\ x.response.statusCode = 500
     /\ \A v \in running :
          (v.pc = "record" /\ \A w \in running' : w.n # v.n) =>
            Removed(v.blog) \cap bucket' = {}]_vars

\* A search with a non-empty term that started without a token and whose
\* last page carries no nextToken.
SearchEnded ==
  /\ session # <<>>
  /\ pending = Absent
  /\ Ev(1).handler = "search"
  /\ ~IsSome(Qp(1).nextToken)
  /\ IsSome(Qp(1).q)
  /\ Val(Qp(1).q) # <<>>
  /\ ~IsSome(Resp(Len(session)).nextToken)

\* The entries that match the term of the search and are the caller's own
\* or public.
SearchMatches ==
  {e \in table :
     /\ \/ IsSubstring(Val(Qp(1).q), e.title)
        \/ IsSubstring(Val(Qp(1).q), e.content)
        \/ Val(Qp(1).q) \in e.tags
     /\ (e.userId = Caller(1) \/ e.visibility = Some(public))}

\* No entry is returned at two places of the pages served so far.
EachOnce ==
  \A i \in DOMAIN session, j \in DOMAIN session :
    \A a \in DOMAIN Resp(i).items, b \in DOMAIN Resp(j).items :
      Resp(i).items[a] = Resp(j).items[b] => i = j /\ a = b

\* C30: following the nextToken of a search with a non-empty term over an
\* unchanged table ends after at most one page per entry and one more, and
\* when it has ended the pages together hold every entry that matches the
\* term and is the caller's own or public, each exactly once.
C30_SearchPagesCoverMatches ==
  /\ (session # <<>> /\ Ev(1).handler = "search" /\ ~IsSome(Qp(1).nextToken))
       => Len(session) <= Cardinality(table) + 1
  /\ SearchEnded =>
       /\ ItemsUpTo(Len(session)) = SearchMatches
       /\ EachOnce

\* The same for searches whose limit parameter gives a Limit of at least 1:
\* every page is served, and the pages cover the matches exactly once.
SearchPagesCoverMatchesWhenServed ==
  (SearchEnded /\ PageSize(1) >= 1) =>
     /\ \A i \in DOMAIN session : Ok(i)
     /\ ItemsUpTo(Len(session)) = SearchMatches
     /\ EachOnce

\* A search that ended after an empty page with a nextToken.
SearchEndedAfterEmptyPage ==
  /\ SearchEnded
  /\ SearchMatches # {}
  /\ \E i \in DOMAIN session : Resp(i).items = <<>> /\ IsSome(Resp(i).nextToken)

====
